---- MODULE Spec2Model ----
(***************************************************************************)
(* Participation ledger of the I'tikaf management backend: registration,   *)
(* status updates, bulk updates, mark-attended and soft-delete of          *)
(* ActivityParticipant rows, together with the Activity directory they     *)
(* read.  Every HTTP handler is one action; the database tables are the    *)
(* variables; django.utils.timezone.now() is the variable clock.           *)
(***************************************************************************)
EXTENDS Integers, Sequences, FiniteSets, TLC

(***************************************************************************)
(* Bounds of the model.                                                    *)
(***************************************************************************)
MaxRecords == 2
MaxTime == 3
MaxFeedbacks == 2
MaxActivities == 2
MaxStatsRows == 4

(***************************************************************************)
(* Directories the ledger reads.                                           *)
(***************************************************************************)
Activities == {1}
NoActivity == 0
Users == {"alice", "bob", "imam", "zed", "carol", "dave"}
NoUser == "nobody"
Registrants == {"alice", "bob", "zed"}
Actors == {"alice", "imam"}
NoRecord == 0
Absent == "absent"

\* required_participants of the activity created
Capacities == {1, 2}

PARTICIPATION_STATUS_CHOICES == {"registered", "attended", "cancelled", "no_show"}

\* CustomUser rows: zed is a deactivated account, imam creates the activities.
CustomUser ==
  [u \in Users |->
     [is_active |-> (u # "zed"),
      is_staff |-> FALSE,
      role |-> (IF u = "imam" THEN "imam" ELSE "participant")]]

\* The Activity rows as created by imam, with capacity cap: activity a runs
\* from 2a - 1 to 2a, so that no two of them overlap.
ActivityRows(cap) ==
  [a \in Activities |->
     [is_active |-> TRUE,
      start_datetime |-> 2 * a - 1,
      end_datetime |-> 2 * a,
      required_participants |-> cap,
      created_by |-> "imam"]]

VARIABLES
  clock,          \* django.utils.timezone.now()
  activity,       \* Activity table: id -> row
  participants,   \* ActivityParticipant table: sequence of rows, pk = index
  request,        \* the request whose response is on its way to the caller
  response,       \* that response
  inflight,       \* the registration requests being handled concurrently
  feedbacks       \* ActivityFeedback table: sequence of rows, id = index

vars == <<clock, activity, participants, request, response, inflight, feedbacks>>

NoRequest ==
  [op |-> "none", activity |-> NoActivity, user |-> NoUser, id |-> NoRecord,
   status |-> Absent, data |-> <<>>]

\* The request of user (the acting user, or the user to register) for op
Req(op, a, u, id, st, data) ==
  [op |-> op, activity |-> a, user |-> u, id |-> id, status |-> st, data |-> data]

NoResponse ==
  [op |-> "none", code |-> 0, errors |-> {}, id |-> NoRecord, updated |-> <<>>,
   body |-> "none"]

\* HTTP status, the kinds of the errors reported, the id of the row returned
\* The body is the envelope {success, message, data | errors} that every
\* handler of activityParticipantApp answers with.
Resp(code, errs, id) ==
  [op |-> "none", code |-> code, errors |-> errs, id |-> id, updated |-> <<>>,
   body |-> "envelope"]

\* A response whose body is serializer data, serializer.errors, {'error': ...}
\* or {'detail': ...}: the handlers of activityApp and feedbacksApp
Plain(code, errs, id) == [Resp(code, errs, id) EXCEPT !.body = "plain"]

\* An exception that leaves the handler: no except clause takes it and the
\* exception handler of the framework does not know it, so that the server
\* answers 500 on its own
Uncaught(errs) == [Resp(500, errs, NoRecord) EXCEPT !.body = "uncaught"]

Answer(op, r) == [r EXCEPT !.op = op]

---------------------------------------------------------------------------
(***************************************************************************)
(* Queries on the ActivityParticipant table.                               *)
(***************************************************************************)

\* ActivityParticipant.objects.filter(activity=a, participation_status='registered',
\*                                    is_active=True).count()
\* A count that also counts the rows that are no longer registered
registered_count_any_status(P, a) ==
  Cardinality({i \in DOMAIN P : P[i].activity = a /\ P[i].is_active})

registered_count(P, a) ==
  Cardinality({i \in DOMAIN P :
                 /\ P[i].activity = a
                 /\ P[i].participation_status = "registered"
                 /\ P[i].is_active})

\* Activity.get_available_spots, over Activity.get_registered_count
get_available_spots(P, act, a) ==
  IF act[a].required_participants - registered_count(P, a) > 0
  THEN act[a].required_participants - registered_count(P, a)
  ELSE 0

\* .filter(activity, user, participation_status__in=statuses, is_active=True)
PairRows(P, a, u, statuses) ==
  {i \in DOMAIN P :
     /\ P[i].activity = a
     /\ P[i].user = u
     /\ P[i].participation_status \in statuses
     /\ P[i].is_active}

\* .first() under Meta.ordering = ['-created_at']: the row created last
First(S) == IF S = {} THEN NoRecord ELSE CHOOSE i \in S : \A j \in S : j <= i

\* get_object_or_404(ActivityParticipant, id=participant_id, is_active=True)
get_object_or_404(P, id) ==
  IF id \in DOMAIN P /\ P[id].is_active THEN id ELSE NoRecord

\* A can_cancel that does not look at the time
can_cancel_any_time(act, rec, t) ==
  rec.participation_status = "registered"

can_cancel(act, rec, t) ==
  /\ rec.participation_status = "registered"
  /\ act[rec.activity].start_datetime > t

can_attend(act, rec, t) ==
  /\ rec.participation_status = "registered"
  /\ act[rec.activity].start_datetime <= t
  /\ t <= act[rec.activity].end_datetime

---------------------------------------------------------------------------
(***************************************************************************)
(* ActivityParticipant.clean, run by save() through full_clean().          *)
(***************************************************************************)

\* A table that also lets a cancelled row be marked attended
valid_transitions_lax(old) ==
  CASE old = "registered" -> {"attended", "cancelled", "no_show"}
    [] old = "attended" -> {}
    [] old = "cancelled" -> {"registered", "attended"}
    [] old = "no_show" -> {"registered"}

\* "Define valid status transitions"
valid_transitions(old) ==
  CASE old = "registered" -> {"attended", "cancelled", "no_show"}
    [] old = "attended" -> {}
    [] old = "cancelled" -> {"registered"}
    [] old = "no_show" -> {"registered"}

\* rec is the instance being saved, pk its primary key (NoRecord when new).
\* The result is the set of error kinds collected in the errors dict.
clean(P, act, rec, pk, t) ==
  LET a == rec.activity
      u == rec.user
      activityErrors ==
        IF /\ act[a].start_datetime <= t
           /\ rec.participation_status = "registered"
           /\ pk = NoRecord
        THEN {"RegistrationClosed"}
        ELSE IF ~act[a].is_active THEN {"InactiveActivity"}
        ELSE {}
      userErrors ==
        IF CustomUser[u].role \notin {"imam", "participant"} THEN {"RoleNotPermitted"}
        ELSE IF ~CustomUser[u].is_active THEN {"InactiveUser"}
        ELSE {}
      existing_registration ==
        IF pk = NoRecord
        THEN First(PairRows(P, a, u, {"registered", "attended"}))
        ELSE NoRecord
      duplicateErrors ==
        IF existing_registration = NoRecord THEN {}
        ELSE IF P[existing_registration].participation_status = "registered"
             THEN {"AlreadyRegistered"}
             ELSE {"AlreadyAttended"}
      transitionErrors ==
        IF /\ pk # NoRecord
           /\ pk \in DOMAIN P
           /\ P[pk].participation_status # rec.participation_status
           /\ rec.participation_status \notin valid_transitions(P[pk].participation_status)
        THEN {"InvalidTransition"}
        ELSE {}
  IN activityErrors \cup userErrors \cup duplicateErrors \cup transitionErrors

---------------------------------------------------------------------------
(***************************************************************************)
(* ActivityParticipantCreateSerializer.                                    *)
(***************************************************************************)

\* A limit test that lets one registration too many through
activity_full_off_by_one(P, act, a) ==
  registered_count(P, a) > act[a].required_participants

\* validate_activity: "Check if activity has reached maximum participants"
activity_full(P, act, a) ==
  registered_count(P, a) >= act[a].required_participants

\* validate_activity without the test of start_datetime
validate_activity_any_time(P, act, a, t) ==
  IF a \notin Activities THEN {"ActivityDoesNotExist"}
  ELSE IF ~act[a].is_active THEN {"InactiveActivity"}
  ELSE IF activity_full(P, act, a) THEN {"CapacityExceeded"}
  ELSE {}

\* Field 'activity': primary-key lookup, then validate_activity.
validate_activity(P, act, a, t) ==
  IF a \notin Activities THEN {"ActivityDoesNotExist"}
  ELSE IF ~act[a].is_active THEN {"InactiveActivity"}
  ELSE IF act[a].start_datetime <= t THEN {"RegistrationClosed"}
  ELSE IF activity_full(P, act, a) THEN {"CapacityExceeded"}
  ELSE {}

\* Field 'user': primary-key lookup, then validate_user.
validate_user(u) ==
  IF u \notin Users THEN {"UserDoesNotExist"}
  ELSE IF ~CustomUser[u].is_active THEN {"InactiveUser"}
  ELSE IF CustomUser[u].role \notin {"participant", "imam"} THEN {"RoleNotPermitted"}
  ELSE {}

\* validate(): the row of the pair in an active status, if any
existing_registration(P, a, u) ==
  First(PairRows(P, a, u, {"registered", "attended"}))

\* A lookup that finds cancelled rows only
cancelled_registration_cancelled_only(P, a, u) ==
  First(PairRows(P, a, u, {"cancelled"}))

\* validate(): the cancelled / no_show row of the pair that is reused, if any
cancelled_registration(P, a, u) ==
  First(PairRows(P, a, u, {"cancelled", "no_show"}))

\* validate() without the check for an existing active registration
validate_without_duplicate_check(P, act, a, u) ==
  LET cancelled == cancelled_registration(P, a, u)
      current_registered_count ==
        Cardinality({i \in DOMAIN P :
                       /\ P[i].activity = a
                       /\ P[i].participation_status = "registered"
                       /\ P[i].is_active
                       /\ i # cancelled})
  IN IF /\ cancelled # NoRecord
        /\ current_registered_count >= act[a].required_participants
     THEN {"CapacityExceeded"}
     ELSE {}

\* validate(): cross-field errors
validate(P, act, a, u) ==
  LET existing == existing_registration(P, a, u)
      cancelled == cancelled_registration(P, a, u)
      current_registered_count ==
        Cardinality({i \in DOMAIN P :
                       /\ P[i].activity = a
                       /\ P[i].participation_status = "registered"
                       /\ P[i].is_active
                       /\ i # cancelled})
  IN IF existing # NoRecord
     THEN IF P[existing].participation_status = "registered"
          THEN {"AlreadyRegistered"}
          ELSE {"AlreadyAttended"}
     ELSE IF /\ cancelled # NoRecord
             /\ current_registered_count >= act[a].required_participants
          THEN {"CapacityExceeded"}
          ELSE {}

\* A validate() that never sets self.instance
serializer_instance_unset(P, a, u) == NoRecord

\* validate(): "self.instance = cancelled_registration"
serializer_instance(P, a, u) == cancelled_registration(P, a, u)

\* participation_status of validated_data: the field default is 'registered'
StatusOf(st) == IF st = Absent THEN "registered" ELSE st

NewRow(a, u, st) ==
  [activity |-> a, user |-> u, participation_status |-> st, is_active |-> TRUE]

\* create(): the final capacity check made before a new row is inserted
create_capacity_check(P, act, a) ==
  IF registered_count(P, a) >= act[a].required_participants
  THEN {"CapacityExceeded"}
  ELSE {}

\* The outcome of serializer.is_valid() and serializer.save() in
\* create_activity_participant: <<response, table after the request>>.
\* save() calls update() when validate() has set self.instance and create()
\* otherwise.  update() lets the DjangoValidationError of Model.save() reach
\* the view (400); create() converts it into a DRF ValidationError, which the
\* view only catches as Exception (500).
RegisterOutcome(P, act, a, u, st, t) ==
  LET fieldErrors == validate_activity(P, act, a, t) \cup validate_user(u)
  IN IF fieldErrors # {} THEN <<Resp(400, fieldErrors, NoRecord), P>>
     ELSE
       LET crossErrors == validate(P, act, a, u)
           instance == serializer_instance(P, a, u)
       IN IF crossErrors # {} THEN <<Resp(400, crossErrors, NoRecord), P>>
          ELSE IF instance # NoRecord
          THEN LET row == [P[instance] EXCEPT !.activity = a, !.user = u,
                                             !.participation_status = StatusOf(st)]
                   cleanErrors == clean(P, act, row, instance, t)
               IN IF cleanErrors # {}
                  THEN <<Resp(400, cleanErrors, NoRecord), P>>
                  ELSE <<Resp(201, {}, instance), [P EXCEPT ![instance] = row]>>
          ELSE LET row == NewRow(a, u, StatusOf(st))
                   finalErrors == create_capacity_check(P, act, a)
                   cleanErrors == clean(P, act, row, NoRecord, t)
               IN IF finalErrors # {} THEN <<Resp(500, finalErrors, NoRecord), P>>
                  ELSE IF cleanErrors # {} THEN <<Resp(500, cleanErrors, NoRecord), P>>
                  ELSE <<Resp(201, {}, Len(P) + 1), Append(P, row)>>

---------------------------------------------------------------------------
(***************************************************************************)
(* ActivityParticipantUpdateSerializer and update_activity_participant.    *)
(***************************************************************************)

serializer_valid_transitions(old) ==
  CASE old = "registered" -> {"attended", "cancelled", "no_show"}
    [] old = "attended" -> {}
    [] old = "cancelled" -> {"registered"}
    [] old = "no_show" -> {"registered"}

\* validate_participation_status(value) on the instance rec
validate_participation_status(act, rec, value, t) ==
  LET old_status == rec.participation_status
  IN IF old_status # value /\ value \notin serializer_valid_transitions(old_status)
     THEN {"InvalidTransition"}
     ELSE IF value = "attended" /\ ~can_attend(act, rec, t) THEN {"CannotAttend"}
     ELSE IF value = "cancelled" /\ ~can_cancel(act, rec, t) THEN {"CannotCancel"}
     ELSE {}

\* The outcome of update_activity_participant.  Http404 and the DRF
\* ValidationError that update() raises for a failed Model.save() both end in
\* the view's "except Exception" (500).
UpdateOutcome(P, act, participant_id, st, t) ==
  LET pk == get_object_or_404(P, participant_id)
  IN IF pk = NoRecord THEN <<Resp(500, {"NotFound"}, NoRecord), P>>
     ELSE
       LET fieldErrors ==
             IF st = Absent THEN {}
             ELSE validate_participation_status(act, P[pk], st, t)
           row == IF st = Absent THEN P[pk]
                  ELSE [P[pk] EXCEPT !.participation_status = st]
           cleanErrors == clean(P, act, row, pk, t)
       IN IF fieldErrors # {} THEN <<Resp(400, fieldErrors, NoRecord), P>>
          ELSE IF cleanErrors # {} THEN <<Resp(500, cleanErrors, NoRecord), P>>
          ELSE <<Resp(200, {}, pk), [P EXCEPT ![pk] = row]>>

---------------------------------------------------------------------------
(***************************************************************************)
(* delete_activity_participant and mark_as_attended.                       *)
(***************************************************************************)

\* A delete that refuses nothing
delete_refused_never(rec) == FALSE

\* "Check if participant can be deleted (business logic)"
delete_refused(rec) == rec.participation_status = "attended"

DeleteOutcome(P, act, participant_id, t) ==
  LET pk == get_object_or_404(P, participant_id)
  IN IF pk = NoRecord THEN <<Resp(500, {"NotFound"}, NoRecord), P>>
     ELSE IF delete_refused(P[pk])
     THEN <<Resp(400, {"AttendedNotDeletable"}, NoRecord), P>>
     ELSE LET row == [P[pk] EXCEPT !.is_active = FALSE]
              cleanErrors == clean(P, act, row, pk, t)
          IN IF cleanErrors # {} THEN <<Resp(500, cleanErrors, NoRecord), P>>
             ELSE <<Resp(200, {}, pk), [P EXCEPT ![pk] = row]>>

\* "Authorization check" of mark_as_attended
mark_authorized(actor, rec) ==
  actor = rec.user \/ CustomUser[actor].role # "imam"

\* A window test that always passes
within_timeframe_always(act, rec, t) == TRUE

\* mark_as_attended: activity.start_datetime <= current_time <= activity.end_datetime
within_timeframe(act, rec, t) ==
  /\ act[rec.activity].start_datetime <= t
  /\ t <= act[rec.activity].end_datetime

MarkOutcome(P, act, participant_id, actor, t) ==
  LET pk == get_object_or_404(P, participant_id)
  IN IF pk = NoRecord THEN <<Plain(500, {"NotFound"}, NoRecord), P>>
     ELSE IF ~mark_authorized(actor, P[pk])
     THEN <<Plain(403, {"PermissionDenied"}, NoRecord), P>>
     ELSE IF P[pk].participation_status # "registered"
     THEN <<Plain(400, {"NotRegistered"}, NoRecord), P>>
     ELSE IF ~within_timeframe(act, P[pk], t)
     THEN <<Plain(400, {"OutsideTimeframe"}, NoRecord), P>>
     ELSE LET row == [P[pk] EXCEPT !.participation_status = "attended"]
              cleanErrors == clean(P, act, row, pk, t)
          IN IF cleanErrors # {} THEN <<Plain(500, cleanErrors, NoRecord), P>>
             ELSE <<Plain(200, {}, pk), [P EXCEPT ![pk] = row]>>

---------------------------------------------------------------------------
(***************************************************************************)
(* bulk_update_participation_status.                                       *)
(***************************************************************************)

bulk_valid_transitions(old) ==
  CASE old = "registered" -> {"attended", "cancelled", "no_show"}
    [] old = "attended" -> {}
    [] old = "cancelled" -> {"registered"}
    [] old = "no_show" -> {"registered"}

\* One pass of the loop body on the table P as the earlier items left it:
\* <<kind of the error appended ("" when the item was applied), table>>.
bulk_item(P, act, item, actor, t) ==
  LET participant_id == item.participant_id
      new_status == item.participation_status
      pk == get_object_or_404(P, participant_id)
  IN IF participant_id = NoRecord \/ new_status = Absent
     THEN <<"MissingField", P>>
     ELSE IF pk = NoRecord THEN <<"NotFound", P>>
     ELSE IF act[P[pk].activity].created_by # actor THEN <<"PermissionDenied", P>>
     ELSE IF new_status \notin bulk_valid_transitions(P[pk].participation_status)
     THEN <<"InvalidTransition", P>>
     ELSE IF new_status = "attended" /\ ~can_attend(act, P[pk], t)
     THEN <<"CannotAttend", P>>
     ELSE IF new_status = "cancelled" /\ ~can_cancel(act, P[pk], t)
     THEN <<"CannotCancel", P>>
     ELSE LET row == [P[pk] EXCEPT !.participation_status = new_status]
          IN IF clean(P, act, row, pk, t) # {}
             THEN <<"SaveFailed", P>>
             ELSE <<"", [P EXCEPT ![pk] = row]>>

\* for idx, item in enumerate(data): the table, the errors and the ids
\* updated after the items idx.. of data have been handled
RECURSIVE bulk_loop(_, _, _, _, _, _, _, _)
bulk_loop(P, act, data, actor, t, idx, errors, updated_participants) ==
  IF idx > Len(data)
  THEN [table |-> P, errors |-> errors, updated |-> updated_participants]
  ELSE LET out == bulk_item(P, act, data[idx], actor, t)
       IN IF out[1] # ""
          THEN bulk_loop(P, act, data, actor, t, idx + 1,
                         errors \cup {<<idx - 1, out[1]>>}, updated_participants)
          ELSE bulk_loop(out[2], act, data, actor, t, idx + 1, errors,
                         Append(updated_participants, data[idx].participant_id))

\* A commit without the rollback
bulk_commit_always(P, Q, errors) == Q

\* "If any errors occurred, roll back all changes": the table committed when
\* the atomic block is left, P before the loop and Q after it
bulk_commit(P, Q, errors) == IF errors # {} THEN P ELSE Q

BulkOutcome(P, act, data, actor, t) ==
  IF data = <<>> THEN <<Resp(400, {"EmptyList"}, NoRecord), P>>
  ELSE LET end == bulk_loop(P, act, data, actor, t, 1, {}, <<>>)
           code == IF end.errors # {} THEN 207 ELSE 200
       IN <<[Resp(code, end.errors, NoRecord) EXCEPT !.updated = end.updated],
            bulk_commit(P, end.table, end.errors)>>

---------------------------------------------------------------------------
(***************************************************************************)
(* Activity directory: soft delete.                                        *)
(***************************************************************************)

\* Q(start_datetime__lt=end) & Q(end_datetime__gt=start) on a stored row
overlaps_identical(row, start, end) ==
  row.start_datetime = start /\ row.end_datetime = end

overlaps(row, start, end) ==
  row.start_datetime < end /\ row.end_datetime > start

\* Activity.clean, overlap scan: the active activities other than a whose
\* window overlaps that of row
overlapping_activities(act, a, row) ==
  {b \in DOMAIN act \ {a} :
     /\ act[b].is_active
     /\ overlaps(act[b], row.start_datetime, row.end_datetime)}

\* Activity.clean as run by Activity.save()
activity_clean(act, a, row) ==
  IF row.start_datetime >= row.end_datetime THEN {"EndBeforeStart"}
  ELSE IF row.required_participants < 1 THEN {"CapacityTooSmall"}
  ELSE IF overlapping_activities(act, a, row) # {} THEN {"Overlap"}
  ELSE {}

DeleteActivityOutcome(act, pk, actor) ==
  IF ~(pk \in DOMAIN act /\ act[pk].is_active)
  THEN <<Plain(500, {"NotFound"}, NoRecord), act>>
  ELSE IF ~(actor = act[pk].created_by \/ CustomUser[actor].is_staff)
  THEN <<Plain(403, {"PermissionDenied"}, NoRecord), act>>
  ELSE LET row == [act[pk] EXCEPT !.is_active = FALSE]
       IN IF activity_clean(act, pk, row) # {}
          THEN <<Plain(500, activity_clean(act, pk, row), NoRecord), act>>
          ELSE <<Plain(204, {}, NoRecord), [act EXCEPT ![pk] = row]>>

---------------------------------------------------------------------------
(***************************************************************************)
(* Actions: one per handler.                                               *)
(***************************************************************************)

RecordIds == 1..MaxRecords

BodyStatuses == PARTICIPATION_STATUS_CHOICES \cup {Absent}

\* The items a bulk request may carry
BulkItems ==
  [participant_id : RecordIds, participation_status : PARTICIPATION_STATUS_CHOICES]
    \cup {[participant_id |-> NoRecord, participation_status |-> "registered"],
          [participant_id |-> 1, participation_status |-> Absent]}

\* The lists a bulk request may carry: the empty list, every single item, and
\* the pairs of an item for row 1 followed by an item for any row.
Batches ==
  {<<>>} \cup {<<item>> : item \in BulkItems}
    \cup {<<first, second>> :
            first \in [participant_id : {1},
                       participation_status : PARTICIPATION_STATUS_CHOICES],
            second \in [participant_id : RecordIds,
                        participation_status : PARTICIPATION_STATUS_CHOICES]}

\* Two workers handle registration requests in the concurrent specification;
\* the requests they take register alice or bob, as registered or as cancelled.
Workers == {1, 2}
ConcRegistrants == {"alice", "bob"}
ConcStatuses == {Absent, "cancelled"}

Idle ==
  [pc |-> "idle", activity |-> NoActivity, user |-> NoUser, status |-> Absent,
   instance |-> NoRecord, row |-> NewRow(NoActivity, NoUser, Absent),
   last_slot |-> FALSE, response |-> NoResponse]

TypeOK ==
  /\ clock \in 0..MaxTime
  /\ Len(activity) <= MaxActivities
  /\ Len(participants) <= MaxStatsRows
  /\ DOMAIN inflight = Workers
  /\ Len(feedbacks) <= MaxFeedbacks

Init ==
  /\ clock = 0
  /\ \E cap \in Capacities : activity = ActivityRows(cap)
  /\ participants = <<>>
  /\ request = NoRequest
  /\ response = NoResponse
  /\ inflight = [w \in Workers |-> Idle]
  /\ feedbacks = <<>>

\* Time passes between requests.
Tick ==
  /\ response = NoResponse
  /\ clock < MaxTime
  /\ clock' = clock + 1
  /\ UNCHANGED <<activity, participants, request, response, inflight, feedbacks>>

\* POST /activity-participants/create/
create_activity_participant(a, u, st) ==
  LET out == RegisterOutcome(participants, activity, a, u, st, clock)
  IN /\ response = NoResponse
     /\ Len(out[2]) <= MaxRecords
     /\ request' = Req("register", a, u, NoRecord, st, <<>>)
     /\ response' = Answer("register", out[1])
     /\ participants' = out[2]
     /\ UNCHANGED <<clock, activity, inflight, feedbacks>>

\* PUT, PATCH /activity-participants/update/<id>/
\* actor is request.user, which the handler never reads
update_activity_participant(participant_id, st, actor) ==
  LET out == UpdateOutcome(participants, activity, participant_id, st, clock)
  IN /\ response = NoResponse
     /\ request' = Req("update", NoActivity, actor, participant_id, st, <<>>)
     /\ response' = Answer("update", out[1])
     /\ participants' = out[2]
     /\ UNCHANGED <<clock, activity, inflight, feedbacks>>

\* DELETE /activity-participants/delete/<id>/
delete_activity_participant(participant_id) ==
  LET out == DeleteOutcome(participants, activity, participant_id, clock)
  IN /\ response = NoResponse
     /\ request' = Req("delete", NoActivity, NoUser, participant_id, Absent, <<>>)
     /\ response' = Answer("delete", out[1])
     /\ participants' = out[2]
     /\ UNCHANGED <<clock, activity, inflight, feedbacks>>

\* PATCH /activity-participants/mark-attended/<id>/
mark_as_attended(participant_id, actor) ==
  LET out == MarkOutcome(participants, activity, participant_id, actor, clock)
  IN /\ response = NoResponse
     /\ request' = Req("mark", NoActivity, actor, participant_id, Absent, <<>>)
     /\ response' = Answer("mark", out[1])
     /\ participants' = out[2]
     /\ UNCHANGED <<clock, activity, inflight, feedbacks>>

\* POST /activity-participants/bulk-update-status/
bulk_update_participation_status(data, actor) ==
  LET out == BulkOutcome(participants, activity, data, actor, clock)
  IN /\ response = NoResponse
     /\ request' = Req("bulk", NoActivity, actor, NoRecord, Absent, data)
     /\ response' = Answer("bulk", out[1])
     /\ participants' = out[2]
     /\ UNCHANGED <<clock, activity, inflight, feedbacks>>

\* DELETE on an activity
delete_activity(pk, actor) ==
  LET out == DeleteActivityOutcome(activity, pk, actor)
  IN /\ response = NoResponse
     /\ request' = Req("delete_activity", pk, actor, NoRecord, Absent, <<>>)
     /\ response' = Answer("delete_activity", out[1])
     /\ activity' = out[2]
     /\ UNCHANGED <<clock, participants, inflight, feedbacks>>

\* The caller receives the response; requests are handled one at a time.
Deliver ==
  /\ response # NoResponse
  /\ request' = NoRequest
  /\ response' = NoResponse
  /\ UNCHANGED <<clock, activity, participants, inflight, feedbacks>>

Next ==
  \/ Tick
  \/ Deliver
  \/ \E a \in Activities \cup {NoActivity}, u \in Registrants, st \in BodyStatuses :
       create_activity_participant(a, u, st)
  \/ \E id \in RecordIds, st \in BodyStatuses, actor \in Actors :
       update_activity_participant(id, st, actor)
  \/ \E id \in RecordIds : delete_activity_participant(id)
  \/ \E id \in RecordIds, actor \in Actors : mark_as_attended(id, actor)
  \/ \E data \in Batches, actor \in Actors :
       /\ actor # "imam" => Len(data) <= 1
       /\ bulk_update_participation_status(data, actor)
  \/ \E a \in Activities, actor \in Actors : delete_activity(a, actor)

Spec == Init /\ [][Next]_vars

---------------------------------------------------------------------------
(***************************************************************************)
(* Concurrent registration.  create_activity_participant runs inside       *)
(* transaction.atomic() without row locks: every query of a request reads  *)
(* the rows committed so far, and its INSERT or UPDATE is committed when    *)
(* the block is left.  A worker's position is the query it makes next.     *)
(***************************************************************************)

Finish(w, code, errs, id) ==
  inflight' = [inflight EXCEPT ![w].pc = "done",
                               ![w].response = Answer("register", Resp(code, errs, id))]

\* A worker takes a request: serializer = ActivityParticipantCreateSerializer(data)
conc_begin(w, a, u, st) ==
  /\ inflight[w].pc = "idle"
  /\ inflight' = [inflight EXCEPT ![w] = [Idle EXCEPT !.pc = "fields", !.activity = a,
                                                      !.user = u, !.status = st]]
  /\ UNCHANGED <<clock, activity, participants, request, response, feedbacks>>

\* is_valid(): validate_activity and validate_user
conc_fields(w) ==
  LET r == inflight[w]
      fieldErrors == validate_activity(participants, activity, r.activity, clock)
                       \cup validate_user(r.user)
      one_open == registered_count(participants, r.activity) + 1
                    = activity[r.activity].required_participants
  IN /\ r.pc = "fields"
     /\ IF fieldErrors # {}
        THEN Finish(w, 400, fieldErrors, NoRecord)
        ELSE inflight' = [inflight EXCEPT ![w].pc = "validate", ![w].last_slot = one_open]
     /\ UNCHANGED <<clock, activity, participants, request, response, feedbacks>>

\* is_valid(): validate(), which loads the cancelled / no_show row to reuse
conc_validate(w) ==
  LET r == inflight[w]
      crossErrors == validate(participants, activity, r.activity, r.user)
      instance == serializer_instance(participants, r.activity, r.user)
  IN /\ r.pc = "validate"
     /\ IF crossErrors # {}
        THEN Finish(w, 400, crossErrors, NoRecord)
        ELSE IF instance # NoRecord
        THEN inflight' = [inflight EXCEPT
               ![w].pc = "clean", ![w].instance = instance,
               ![w].row = [participants[instance] EXCEPT
                             !.activity = r.activity, !.user = r.user,
                             !.participation_status = StatusOf(r.status)]]
        ELSE inflight' = [inflight EXCEPT
               ![w].pc = "create_check",
               ![w].row = NewRow(r.activity, r.user, StatusOf(r.status))]
     /\ UNCHANGED <<clock, activity, participants, request, response, feedbacks>>

\* save() -> create(): "Final check before creating new registration"
conc_create_check(w) ==
  LET r == inflight[w]
      finalErrors == create_capacity_check(participants, activity, r.activity)
  IN /\ r.pc = "create_check"
     /\ IF finalErrors # {}
        THEN Finish(w, 500, finalErrors, NoRecord)
        ELSE inflight' = [inflight EXCEPT ![w].pc = "clean"]
     /\ UNCHANGED <<clock, activity, participants, request, response, feedbacks>>

\* Model.save() -> full_clean() -> clean()
conc_clean(w) ==
  LET r == inflight[w]
      cleanErrors == clean(participants, activity, r.row, r.instance, clock)
  IN /\ r.pc = "clean"
     /\ IF cleanErrors # {}
        THEN Finish(w, IF r.instance # NoRecord THEN 400 ELSE 500, cleanErrors, NoRecord)
        ELSE inflight' = [inflight EXCEPT ![w].pc = "write"]
     /\ UNCHANGED <<clock, activity, participants, request, response, feedbacks>>

\* Model.save() -> INSERT or UPDATE, committed on leaving the atomic block
conc_write(w) ==
  LET r == inflight[w]
  IN /\ r.pc = "write"
     /\ IF r.instance # NoRecord
        THEN /\ participants' = [participants EXCEPT ![r.instance] = r.row]
             /\ Finish(w, 201, {}, r.instance)
        ELSE /\ Len(participants) < MaxRecords
             /\ participants' = Append(participants, r.row)
             /\ Finish(w, 201, {}, Len(participants) + 1)
     /\ UNCHANGED <<clock, activity, request, response, feedbacks>>

\* The caller receives the worker's response.
conc_deliver(w) ==
  /\ inflight[w].pc = "done"
  /\ inflight' = [inflight EXCEPT ![w] = Idle]
  /\ UNCHANGED <<clock, activity, participants, request, response, feedbacks>>

ConcTick ==
  /\ clock < MaxTime
  /\ clock' = clock + 1
  /\ UNCHANGED <<activity, participants, request, response, inflight, feedbacks>>

NextConc ==
  \/ ConcTick
  \/ \E w \in Workers, a \in Activities, u \in ConcRegistrants, st \in ConcStatuses :
       conc_begin(w, a, u, st)
  \/ \E w \in Workers : conc_fields(w)
  \/ \E w \in Workers : conc_validate(w)
  \/ \E w \in Workers : conc_create_check(w)
  \/ \E w \in Workers : conc_clean(w)
  \/ \E w \in Workers : conc_write(w)
  \/ \E w \in Workers : conc_deliver(w)

SpecConc == Init /\ [][NextConc]_vars

---------------------------------------------------------------------------
(***************************************************************************)
(* Feedback: feedbacksApp.  Handlers run one at a time; a deleted row      *)
(* leaves a hole so that ids are never reused.                             *)
(***************************************************************************)

FeedbackActivities == {1, 2}
FeedbackAuthors == {"alice", "bob"}
Ratings == {0, 3}
FeedbackIds == 1..MaxFeedbacks

\* the Activity table the feedback handlers are run against
FeedbackActivityRows ==
  [a \in FeedbackActivities |->
     [is_active |-> TRUE,
      start_datetime |-> 2 * a - 1,
      end_datetime |-> 2 * a,
      required_participants |-> 2,
      created_by |-> "imam"]]

\* a deleted row
NoFeedback == [created_by |-> NoUser, activity |-> NoActivity, rating |-> 0]

\* ActivityFeedback.objects.filter(created_by=user, activity=activity)
feedback_rows(F, user, a) ==
  {i \in DOMAIN F : F[i].created_by = user /\ F[i].activity = a}

\* ActivityFeedback.objects.filter(...).exists() of create_feedback
feedback_exists(F, user, a) == feedback_rows(F, user, a) # {}

\* unique_together = ['created_by', 'activity'] as the database enforces it
\* when row is written under id pk (NoRecord for an insert)
unique_together_unenforced(F, row, pk) == FALSE

unique_together_violated(F, row, pk) ==
  feedback_rows(F, row.created_by, row.activity) \ {pk} # {}

\* MinValueValidator(1), MaxValueValidator(5) on rating
rating_valid(rating) == 1 <= rating /\ rating <= 5

\* FeedbackCreateSerializer.is_valid(): body is a record holding the fields
\* the request carries
feedback_serializer_errors(act, body) ==
  (IF "activity" \in DOMAIN body /\ body.activity \notin DOMAIN act
   THEN {"ActivityDoesNotExist"} ELSE {})
  \cup
  (IF "rating" \in DOMAIN body /\ ~rating_valid(body.rating)
   THEN {"InvalidRating"} ELSE {})

\* get_object_or_404(ActivityFeedback, id=feedback_id)
feedback_found(F, feedback_id) ==
  feedback_id \in DOMAIN F /\ F[feedback_id] # NoFeedback

CreateFeedbackOutcome(F, act, user, body) ==
  IF feedback_serializer_errors(act, body) # {}
  THEN <<Plain(400, feedback_serializer_errors(act, body), NoRecord), F>>
  ELSE IF ~act[body.activity].is_active
  THEN <<Plain(404, {"NotFound"}, NoRecord), F>>
  ELSE IF feedback_exists(F, user, body.activity)
  THEN <<Plain(400, {"DuplicateFeedback"}, NoRecord), F>>
  ELSE IF ~rating_valid(body.rating)
  THEN <<Plain(400, {"InvalidRating"}, NoRecord), F>>
  ELSE LET row == [created_by |-> user, activity |-> body.activity,
                   rating |-> body.rating]
       IN IF unique_together_violated(F, row, NoRecord)
          THEN <<Uncaught({"IntegrityError"}), F>>
          ELSE <<Plain(201, {}, Len(F) + 1), Append(F, row)>>

UpdateFeedbackOutcome(F, act, user, feedback_id, body) ==
  IF ~feedback_found(F, feedback_id)
  THEN <<Plain(404, {"NotFound"}, NoRecord), F>>
  ELSE IF F[feedback_id].created_by # user
  THEN <<Plain(403, {"PermissionDenied"}, NoRecord), F>>
  ELSE IF feedback_serializer_errors(act, body) # {}
  THEN <<Plain(400, feedback_serializer_errors(act, body), NoRecord), F>>
  ELSE LET old == F[feedback_id]
           row == [created_by |-> old.created_by,
                   activity |-> IF "activity" \in DOMAIN body
                                THEN body.activity ELSE old.activity,
                   rating |-> IF "rating" \in DOMAIN body
                              THEN body.rating ELSE old.rating]
       IN IF unique_together_violated(F, row, feedback_id)
          THEN <<Uncaught({"IntegrityError"}), F>>
          ELSE <<Plain(200, {}, feedback_id), [F EXCEPT ![feedback_id] = row]>>

DeleteFeedbackOutcome(F, user, feedback_id) ==
  IF ~feedback_found(F, feedback_id)
  THEN <<Plain(404, {"NotFound"}, NoRecord), F>>
  ELSE IF F[feedback_id].created_by # user
  THEN <<Plain(403, {"PermissionDenied"}, NoRecord), F>>
  ELSE <<Plain(204, {}, NoRecord), [F EXCEPT ![feedback_id] = NoFeedback]>>

\* the bodies a create request carries: activity and rating are required
CreateFeedbackBodies ==
  [activity : FeedbackActivities \cup {NoActivity}, rating : Ratings]

\* the bodies an update request carries: the serializer is partial
UpdateFeedbackBodies ==
  [rating : Ratings] \cup [activity : FeedbackActivities]

InitFeedback ==
  /\ clock = 0
  /\ activity = FeedbackActivityRows
  /\ participants = <<>>
  /\ request = NoRequest
  /\ response = NoResponse
  /\ inflight = [w \in Workers |-> Idle]
  /\ feedbacks = <<>>

\* POST /feedbacks/create/
create_feedback(user, body) ==
  LET out == CreateFeedbackOutcome(feedbacks, activity, user, body)
  IN /\ response = NoResponse
     /\ Len(out[2]) <= MaxFeedbacks
     /\ request' = Req("create_feedback", body.activity, user, NoRecord, Absent, <<body>>)
     /\ response' = Answer("create_feedback", out[1])
     /\ feedbacks' = out[2]
     /\ UNCHANGED <<clock, activity, participants, inflight>>

\* PUT /feedbacks/update/<feedback_id>/
update_feedback(user, feedback_id, body) ==
  LET out == UpdateFeedbackOutcome(feedbacks, activity, user, feedback_id, body)
  IN /\ response = NoResponse
     /\ request' = Req("update_feedback", NoActivity, user, feedback_id, Absent, <<body>>)
     /\ response' = Answer("update_feedback", out[1])
     /\ feedbacks' = out[2]
     /\ UNCHANGED <<clock, activity, participants, inflight>>

\* DELETE /feedbacks/delete/<feedback_id>/
delete_feedback(user, feedback_id) ==
  LET out == DeleteFeedbackOutcome(feedbacks, user, feedback_id)
  IN /\ response = NoResponse
     /\ request' = Req("delete_feedback", NoActivity, user, feedback_id, Absent, <<>>)
     /\ response' = Answer("delete_feedback", out[1])
     /\ feedbacks' = out[2]
     /\ UNCHANGED <<clock, activity, participants, inflight>>

\* The feedback handlers next to the handlers that produce attended records
NextFeedback ==
  \/ Tick
  \/ Deliver
  \/ \E u \in FeedbackAuthors : create_activity_participant(1, u, Absent)
  \/ \E id \in RecordIds : mark_as_attended(id, "alice")
  \/ \E a \in FeedbackActivities : delete_activity(a, "imam")
  \/ \E u \in FeedbackAuthors, body \in CreateFeedbackBodies :
       create_feedback(u, body)
  \/ \E u \in FeedbackAuthors, id \in FeedbackIds, body \in UpdateFeedbackBodies :
       update_feedback(u, id, body)
  \/ \E u \in FeedbackAuthors, id \in FeedbackIds : delete_feedback(u, id)

SpecFeedback == InitFeedback /\ [][NextFeedback]_vars

---------------------------------------------------------------------------
(***************************************************************************)
(* Activity directory: activityApp create, update and soft delete.  The    *)
(* table grows by insertion; the id of a row is its index.                 *)
(***************************************************************************)

ActivityIds == 1..MaxActivities
ActivityTimes == {1, 2, 3}
ActivityCapacities == {0, 1}
Creators == {"imam", "alice"}

\* A lookup that also finds the deactivated rows
activity_found_any_state(act, pk) == pk \in DOMAIN act

\* get_object_or_404(Activity, pk=pk, is_active=True)
activity_found(act, pk) == pk \in DOMAIN act /\ act[pk].is_active

\* the value the serializer works with: the body's, else the instance's
field_or_instance(act, pk, body, name, default) ==
  IF name \in DOMAIN body THEN body[name]
  ELSE IF pk \in DOMAIN act THEN act[pk][name]
  ELSE default

\* ActivitySerializer.validate, overlap scan: pk is NoActivity on create
serializer_overlapping_activities(act, pk, start, end) ==
  {b \in DOMAIN act \ {pk} : act[b].is_active /\ overlaps(act[b], start, end)}

\* str.strip() on a name held as the sequence of its characters
RECURSIVE strip(_)
strip(value) ==
  IF value = <<>> THEN value
  ELSE IF Head(value) = " " THEN strip(Tail(value))
  ELSE IF value[Len(value)] = " " THEN strip(SubSeq(value, 1, Len(value) - 1))
  ELSE value

\* ActivitySerializer.validate_name
validate_name(value) ==
  IF Len(strip(value)) < 3 THEN {"NameTooShort"} ELSE {}

\* ActivitySerializer.is_valid(): the errors of all the fields together,
\* and validate() only when no field has one.  A body that holds no name
\* stands for a request whose name is valid.
activity_serializer_errors(act, pk, body, partial) ==
  LET required ==
        IF ~partial /\ ~({"start_datetime", "end_datetime"} \subseteq DOMAIN body)
        THEN {"Required"} ELSE {}
      name ==
        IF "name" \in DOMAIN body THEN validate_name(body.name) ELSE {}
      capacity ==
        IF "required_participants" \in DOMAIN body /\ body.required_participants < 1
        THEN {"CapacityTooSmall"} ELSE {}
      both == {"start_datetime", "end_datetime"} \subseteq DOMAIN body
      either == {"start_datetime", "end_datetime"} \cap DOMAIN body # {}
      start == field_or_instance(act, pk, body, "start_datetime", 0)
      end == field_or_instance(act, pk, body, "end_datetime", 0)
  IN IF required \cup name \cup capacity # {}
     THEN required \cup name \cup capacity
     ELSE IF both /\ body.start_datetime >= body.end_datetime
     THEN {"EndBeforeStart"}
     ELSE IF either /\ serializer_overlapping_activities(act, pk, start, end) # {}
     THEN {"Overlap"}
     ELSE {}

\* the row serializer.save() hands to Activity.save()
activity_row(act, pk, body, user) ==
  [is_active |-> field_or_instance(act, pk, body, "is_active", TRUE),
   start_datetime |-> field_or_instance(act, pk, body, "start_datetime", 0),
   end_datetime |-> field_or_instance(act, pk, body, "end_datetime", 0),
   required_participants |-> field_or_instance(act, pk, body, "required_participants", 1),
   created_by |-> IF pk \in DOMAIN act THEN act[pk].created_by ELSE user]

CreateActivityOutcome(act, user, body) ==
  LET errs == activity_serializer_errors(act, NoActivity, body, FALSE)
      row == activity_row(act, NoActivity, body, user)
  IN IF errs # {} THEN <<Plain(400, errs, NoRecord), act>>
     ELSE IF activity_clean(act, NoActivity, row) # {}
     THEN <<Plain(400, activity_clean(act, NoActivity, row), NoRecord), act>>
     ELSE <<Plain(201, {}, NoRecord), Append(act, row)>>

UpdateActivityOutcome(act, pk, user, body, partial) ==
  IF ~activity_found(act, pk)
  THEN <<Plain(500, {"NotFound"}, NoRecord), act>>
  ELSE IF ~(user = act[pk].created_by \/ CustomUser[user].is_staff)
  THEN <<Plain(403, {"PermissionDenied"}, NoRecord), act>>
  ELSE LET errs == activity_serializer_errors(act, pk, body, partial)
           row == activity_row(act, pk, body, user)
       IN IF errs # {} THEN <<Plain(400, errs, NoRecord), act>>
          ELSE IF activity_clean(act, pk, row) # {}
          THEN <<Plain(500, activity_clean(act, pk, row), NoRecord), act>>
          ELSE <<Plain(200, {}, NoRecord), [act EXCEPT ![pk] = row]>>

\* the bodies a create request carries
CreateActivityBodies ==
  [start_datetime : ActivityTimes, end_datetime : ActivityTimes,
   required_participants : ActivityCapacities]
  \cup
  [start_datetime : ActivityTimes, end_datetime : ActivityTimes,
   is_active : BOOLEAN]

\* the bodies an update request carries
UpdateActivityBodies ==
  [start_datetime : ActivityTimes]
  \cup [end_datetime : ActivityTimes]
  \cup [is_active : BOOLEAN]
  \cup [start_datetime : ActivityTimes, end_datetime : ActivityTimes]

InitActivity ==
  /\ clock = 0
  /\ activity = <<>>
  /\ participants = <<>>
  /\ request = NoRequest
  /\ response = NoResponse
  /\ inflight = [w \in Workers |-> Idle]
  /\ feedbacks = <<>>

\* POST /activities/create/
create_activity(user, body) ==
  LET out == CreateActivityOutcome(activity, user, body)
  IN /\ response = NoResponse
     /\ Len(out[2]) <= MaxActivities
     /\ request' = Req("create_activity", NoActivity, user, NoRecord, Absent, <<body>>)
     /\ response' = Answer("create_activity", out[1])
     /\ activity' = out[2]
     /\ UNCHANGED <<clock, participants, inflight, feedbacks>>

\* PUT, PATCH /activities/<pk>/update/
update_activity(pk, user, body, partial) ==
  LET out == UpdateActivityOutcome(activity, pk, user, body, partial)
  IN /\ response = NoResponse
     /\ request' = Req("update_activity", pk, user, NoRecord,
                       IF partial THEN "PATCH" ELSE "PUT", <<body>>)
     /\ response' = Answer("update_activity", out[1])
     /\ activity' = out[2]
     /\ UNCHANGED <<clock, participants, inflight, feedbacks>>

NextActivity ==
  \/ Deliver
  \/ \E user \in Creators, body \in CreateActivityBodies :
       create_activity(user, body)
  \/ \E pk \in ActivityIds, user \in Creators, body \in UpdateActivityBodies,
        partial \in BOOLEAN :
       update_activity(pk, user, body, partial)
  \/ \E pk \in ActivityIds, user \in Creators : delete_activity(pk, user)

SpecActivity == InitActivity /\ [][NextActivity]_vars

---------------------------------------------------------------------------
(***************************************************************************)
(* Statistics query.  A rate is held in hundredths of a percent, so that   *)
(* 33.33 is 3333 and 0.0 is 0.                                             *)
(***************************************************************************)

StatsRegistrants == {"alice", "bob", "carol", "dave", "imam"}
StatsStatuses == {Absent, "attended"}

\* ActivityParticipant.get_activity_statistics
get_activity_statistics(P, a) ==
  LET rows == {i \in DOMAIN P : P[i].activity = a /\ P[i].is_active}
      count(st) == Cardinality({i \in rows : P[i].participation_status = st})
  IN [total_registered |-> count("registered"),
      total_attended |-> count("attended"),
      total_cancelled |-> count("cancelled"),
      total_no_show |-> count("no_show"),
      total_participants |-> Cardinality(rows)]

\* round(num / den, 0): to the nearest integer, a tie to the even one
round(num, den) ==
  LET q == num \div den
      r == num % den
  IN IF 2 * r > den THEN q + 1
     ELSE IF 2 * r = den THEN q + (q % 2)
     ELSE q

\* a rate rounded to one decimal only
get_attendance_rate_one_decimal(obj) ==
  IF obj.total_registered = 0 THEN 0
  ELSE 10 * round(obj.total_attended * 1000, obj.total_registered)

\* ActivityStatisticsSerializer.get_attendance_rate
get_attendance_rate(obj) ==
  IF obj.total_registered = 0 THEN 0
  ELSE round(obj.total_attended * 10000, obj.total_registered)

\* get_activity_participation_stats: <<response, table>>; the response
\* carries the serialized statistics
StatsOutcome(P, act, a) ==
  IF ~(a \in DOMAIN act /\ act[a].is_active)
  THEN <<Resp(500, {"NotFound"}, NoRecord), P>>
  ELSE LET stats == get_activity_statistics(P, a)
           data == [total_registered |-> stats.total_registered,
                    total_attended |-> stats.total_attended,
                    total_cancelled |-> stats.total_cancelled,
                    total_no_show |-> stats.total_no_show,
                    total_participants |-> stats.total_participants,
                    attendance_rate |-> get_attendance_rate(stats)]
       IN <<[Resp(200, {}, NoRecord) EXCEPT !.updated = <<data>>], P>>

\* an activity large enough for every registrant, not yet started
InitStats ==
  /\ clock = 0
  /\ activity = [a \in Activities |->
                   [ActivityRows(1)[a] EXCEPT !.required_participants = MaxStatsRows]]
  /\ participants = <<>>
  /\ request = NoRequest
  /\ response = NoResponse
  /\ inflight = [w \in Workers |-> Idle]
  /\ feedbacks = <<>>

\* POST /activity-participants/create/ on the larger ledger
stats_create_activity_participant(a, u, st) ==
  LET out == RegisterOutcome(participants, activity, a, u, st, clock)
  IN /\ response = NoResponse
     /\ Len(out[2]) <= MaxStatsRows
     /\ request' = Req("register", a, u, NoRecord, st, <<>>)
     /\ response' = Answer("register", out[1])
     /\ participants' = out[2]
     /\ UNCHANGED <<clock, activity, inflight, feedbacks>>

\* GET /activity-participants/stats/<activity_id>/
get_activity_participation_stats(a) ==
  LET out == StatsOutcome(participants, activity, a)
  IN /\ response = NoResponse
     /\ request' = Req("stats", a, NoUser, NoRecord, Absent, <<>>)
     /\ response' = Answer("stats", out[1])
     /\ participants' = out[2]
     /\ UNCHANGED <<clock, activity, inflight, feedbacks>>

NextStats ==
  \/ Deliver
  \/ \E a \in Activities, u \in StatsRegistrants, st \in StatsStatuses :
       stats_create_activity_participant(a, u, st)
  \/ \E id \in RecordIds : delete_activity_participant(id)
  \/ \E a \in Activities \cup {NoActivity} : get_activity_participation_stats(a)

SpecStats == InitStats /\ [][NextStats]_vars

---------------------------------------------------------------------------
(***************************************************************************)
(* Registration with the fields the status rules do not read: notes and    *)
(* registration_date.  The rows of this ledger carry both.                 *)
(***************************************************************************)

Notes == {"first", "second"}
NullNotes == "null"
NotesRegistrants == {"alice", "bob"}

\* what the request carries in 'notes': one element, or nothing
BodyNotes == {<<>>} \cup {<<n>> : n \in Notes}

\* ModelSerializer.create: registration_date takes its default now(), notes
\* the body's value or the column's null
inserted_details(row, notes, t) ==
  [activity |-> row.activity, user |-> row.user,
   participation_status |-> row.participation_status,
   is_active |-> row.is_active,
   notes |-> IF notes = <<>> THEN NullNotes ELSE notes[1],
   registration_date |-> t]

\* ModelSerializer.update, reached through save() once validate() has set
\* self.instance: only the fields of validated_data are assigned
updated_details(old, row, notes) ==
  [activity |-> row.activity, user |-> row.user,
   participation_status |-> row.participation_status,
   is_active |-> row.is_active,
   notes |-> IF notes = <<>> THEN old.notes ELSE notes[1],
   registration_date |-> old.registration_date]

\* create_activity_participant on the detailed ledger
RegisterDetailsOutcome(P, act, a, u, st, notes, t) ==
  LET out == RegisterOutcome(P, act, a, u, st, t)
      id == out[1].id
  IN IF out[1].code # 201 THEN out
     ELSE IF id \in DOMAIN P
     THEN <<out[1], [out[2] EXCEPT ![id] = updated_details(P[id], out[2][id], notes)]>>
     ELSE <<out[1], [out[2] EXCEPT ![id] = inserted_details(out[2][id], notes, t)]>>

\* an activity that starts late enough for a cancellation and a
\* re-registration to happen at different times
InitDetails ==
  /\ clock = 0
  /\ activity = [a \in Activities |->
                   [ActivityRows(2)[a] EXCEPT !.start_datetime = MaxTime,
                                              !.end_datetime = MaxTime + 1]]
  /\ participants = <<>>
  /\ request = NoRequest
  /\ response = NoResponse
  /\ inflight = [w \in Workers |-> Idle]
  /\ feedbacks = <<>>

\* POST /activity-participants/create/ with its notes
create_activity_participant_with_notes(a, u, st, notes) ==
  LET out == RegisterDetailsOutcome(participants, activity, a, u, st, notes, clock)
  IN /\ response = NoResponse
     /\ Len(out[2]) <= MaxRecords
     /\ request' = Req("register", a, u, NoRecord, st, notes)
     /\ response' = Answer("register", out[1])
     /\ participants' = out[2]
     /\ UNCHANGED <<clock, activity, inflight, feedbacks>>

NextDetails ==
  \/ Tick
  \/ Deliver
  \/ \E a \in Activities, u \in NotesRegistrants, notes \in BodyNotes :
       create_activity_participant_with_notes(a, u, Absent, notes)
  \/ \E id \in RecordIds, st \in {"cancelled", "no_show"} :
       update_activity_participant(id, st, "imam")

SpecDetails == InitDetails /\ [][NextDetails]_vars

---------------------------------------------------------------------------
(***************************************************************************)
(* Activity create and update with the name in the body.                   *)
(***************************************************************************)

Names == {<<"a", "b", "c">>, <<" ", "a", "b", " ">>}

NamedActivityBodies ==
  [name : Names, start_datetime : ActivityTimes, end_datetime : ActivityTimes,
   required_participants : ActivityCapacities]

NextNamed ==
  \/ Deliver
  \/ \E body \in NamedActivityBodies : create_activity("imam", body)
  \/ \E pk \in ActivityIds, body \in NamedActivityBodies :
       update_activity(pk, "imam", body, FALSE)

SpecNamed == InitActivity /\ [][NextNamed]_vars

---------------------------------------------------------------------------
(***************************************************************************)
(* Two status changes of one record handled concurrently: mark_as_attended *)
(* and update_activity_participant, one step per database access.  Each    *)
(* worker holds the instance it loaded; Model.save() writes that instance  *)
(* back whole.                                                             *)
(***************************************************************************)

RaceStatuses == {"cancelled", "no_show"}
RaceRegistrants == {"alice"}

RaceFinish(w, op, r) ==
  inflight' = [inflight EXCEPT ![w].pc = "done", ![w].response = Answer(op, r)]

\* get_object_or_404(ActivityParticipant, id=participant_id, is_active=True)
\* of mark_as_attended: the worker keeps the row as it is now
race_mark_begin(w, participant_id, actor) ==
  LET pk == get_object_or_404(participants, participant_id)
  IN /\ inflight[w].pc = "idle"
     /\ IF pk = NoRecord
        THEN RaceFinish(w, "mark", Plain(500, {"NotFound"}, NoRecord))
        ELSE inflight' = [inflight EXCEPT ![w] =
               [Idle EXCEPT !.pc = "mark_check", !.user = actor,
                            !.instance = pk, !.row = participants[pk],
                            !.status = "attended"]]
     /\ UNCHANGED <<clock, activity, participants, request, response, feedbacks>>

\* mark_as_attended: authorization, status and window, on the loaded row
race_mark_check(w) ==
  LET r == inflight[w]
  IN /\ r.pc = "mark_check"
     /\ IF ~mark_authorized(r.user, r.row)
        THEN RaceFinish(w, "mark", Plain(403, {"PermissionDenied"}, NoRecord))
        ELSE IF r.row.participation_status # "registered"
        THEN RaceFinish(w, "mark", Plain(400, {"NotRegistered"}, NoRecord))
        ELSE IF ~within_timeframe(activity, r.row, clock)
        THEN RaceFinish(w, "mark", Plain(400, {"OutsideTimeframe"}, NoRecord))
        ELSE inflight' = [inflight EXCEPT
               ![w].pc = "mark_clean",
               ![w].row = [r.row EXCEPT !.participation_status = "attended"]]
     /\ UNCHANGED <<clock, activity, participants, request, response, feedbacks>>

\* get_object_or_404 of update_activity_participant
race_update_begin(w, participant_id, st) ==
  LET pk == get_object_or_404(participants, participant_id)
  IN /\ inflight[w].pc = "idle"
     /\ IF pk = NoRecord
        THEN RaceFinish(w, "update", Resp(500, {"NotFound"}, NoRecord))
        ELSE inflight' = [inflight EXCEPT ![w] =
               [Idle EXCEPT !.pc = "update_check", !.instance = pk,
                            !.row = participants[pk], !.status = st]]
     /\ UNCHANGED <<clock, activity, participants, request, response, feedbacks>>

\* serializer.is_valid(): validate_participation_status on the loaded row
race_update_check(w) ==
  LET r == inflight[w]
      fieldErrors == validate_participation_status(activity, r.row, r.status, clock)
  IN /\ r.pc = "update_check"
     /\ IF fieldErrors # {}
        THEN RaceFinish(w, "update", Resp(400, fieldErrors, NoRecord))
        ELSE inflight' = [inflight EXCEPT
               ![w].pc = "update_clean",
               ![w].row = [r.row EXCEPT !.participation_status = r.status]]
     /\ UNCHANGED <<clock, activity, participants, request, response, feedbacks>>

\* Model.save() -> full_clean() -> clean(), which reads the stored row again
\* for its transition check
race_clean(w) ==
  LET r == inflight[w]
      op == IF r.pc = "mark_clean" THEN "mark" ELSE "update"
      cleanErrors == clean(participants, activity, r.row, r.instance, clock)
  IN /\ r.pc \in {"mark_clean", "update_clean"}
     /\ IF cleanErrors # {}
        THEN RaceFinish(w, op, IF op = "mark"
                               THEN Plain(500, cleanErrors, NoRecord)
                               ELSE Resp(500, cleanErrors, NoRecord))
        ELSE inflight' = [inflight EXCEPT
               ![w].pc = IF op = "mark" THEN "mark_write" ELSE "update_write"]
     /\ UNCHANGED <<clock, activity, participants, request, response, feedbacks>>

\* Model.save() -> UPDATE of the row by its primary key
race_write(w) ==
  LET r == inflight[w]
      op == IF r.pc = "mark_write" THEN "mark" ELSE "update"
  IN /\ r.pc \in {"mark_write", "update_write"}
     /\ participants' = [participants EXCEPT ![r.instance] = r.row]
     /\ RaceFinish(w, op, IF op = "mark"
                          THEN Plain(200, {}, r.instance)
                          ELSE Resp(200, {}, r.instance))
     /\ UNCHANGED <<clock, activity, request, response, feedbacks>>

NextRace ==
  \/ ConcTick
  \/ Deliver
  \/ \E a \in Activities, u \in RaceRegistrants :
       /\ \A w \in Workers : inflight[w].pc = "idle"
       /\ create_activity_participant(a, u, Absent)
  \/ \E w \in Workers, id \in RecordIds, actor \in RaceRegistrants :
       race_mark_begin(w, id, actor)
  \/ \E w \in Workers : race_mark_check(w)
  \/ \E w \in Workers, id \in RecordIds, st \in RaceStatuses :
       race_update_begin(w, id, st)
  \/ \E w \in Workers : race_update_check(w)
  \/ \E w \in Workers : race_clean(w)
  \/ \E w \in Workers : race_write(w)
  \/ \E w \in Workers : conc_deliver(w)

SpecRace == Init /\ [][NextRace]_vars

---------------------------------------------------------------------------
(***************************************************************************)
(* The ledger of an activity that is deactivated: the participant          *)
(* handlers together with delete_activity and update_activity.             *)
(***************************************************************************)

NextDeleted ==
  \/ Tick
  \/ Deliver
  \/ \E a \in Activities, u \in ConcRegistrants, st \in ConcStatuses :
       create_activity_participant(a, u, st)
  \/ \E id \in RecordIds, st \in PARTICIPATION_STATUS_CHOICES :
       update_activity_participant(id, st, "imam")
  \/ \E id \in RecordIds : delete_activity_participant(id)
  \/ \E id \in RecordIds, actor \in Actors : mark_as_attended(id, actor)
  \/ \E item \in [participant_id : RecordIds,
                  participation_status : PARTICIPATION_STATUS_CHOICES] :
       bulk_update_participation_status(<<item>>, "imam")
  \/ \E a \in Activities : delete_activity(a, "imam")
  \/ \E pk \in Activities, body \in [is_active : BOOLEAN] :
       update_activity(pk, "imam", body, TRUE)

SpecDeleted == Init /\ [][NextDeleted]_vars

---------------------------------------------------------------------------
(***************************************************************************)
(* Properties.  What the specification says is written here on its own     *)
(* terms: the transition table of its section 4.1, its counts and its      *)
(* pairs are defined again rather than taken from the handlers above.      *)
(***************************************************************************)

\* Section 4.1: the allowed transitions
TransitionTable ==
  [s \in PARTICIPATION_STATUS_CHOICES |->
     CASE s = "registered" -> {"attended", "cancelled", "no_show"}
       [] s = "cancelled" -> {"registered"}
       [] s = "no_show" -> {"registered"}
       [] s = "attended" -> {}]

\* A request to move a row from old to new that the table does not allow
Disallowed(old, new) == old # new /\ new \notin TransitionTable[old]

\* new is reached from old by k transitions of the table
RECURSIVE TablePath(_, _, _)
TablePath(old, new, k) ==
  IF k = 0 THEN old = new
  ELSE \E mid \in TransitionTable[old] : TablePath(mid, new, k - 1)

\* The rows of activity a that are registered and active
RegisteredRows(P, a) ==
  {i \in DOMAIN P : P[i].activity = a /\ P[i].participation_status = "registered"
                    /\ P[i].is_active}

\* The rows of the pair (a, u) whose status is in statuses
RowsOfPair(P, a, u, statuses) ==
  {i \in DOMAIN P : P[i].activity = a /\ P[i].user = u
                    /\ P[i].participation_status \in statuses}

ActiveRowsOfPair(P, a, u, statuses) ==
  {i \in RowsOfPair(P, a, u, statuses) : P[i].is_active}

\* The errors of the checks that run before the duplicate and transition
\* checks of a registration (steps 1 to 3 of section 4.1)
GateErrors ==
  {"ActivityDoesNotExist", "InactiveActivity", "RegistrationClosed",
   "CapacityExceeded", "UserDoesNotExist", "InactiveUser", "RoleNotPermitted"}

Found(P, id) == id \in DOMAIN P /\ P[id].is_active

\* C1: in every reachable state the number of registered, active rows of an
\* activity is at most its required_participants.
C1_CapacityRespected ==
  \A a \in Activities :
    Cardinality(RegisteredRows(participants, a)) <= activity[a].required_participants

\* C2: two concurrent registrations of different users that both saw the last
\* open slot of an activity never both succeed; when one has succeeded the
\* other fails with CapacityExceeded (or, if the activity started while it
\* was in flight, with the error of that check).
C2_LastSlotNotTakenTwice ==
  \A v, w \in Workers :
    (/\ v # w
     /\ inflight[v].pc = "done" /\ inflight[w].pc = "done"
     /\ inflight[v].activity = inflight[w].activity
     /\ inflight[v].user # inflight[w].user
     /\ inflight[v].last_slot /\ inflight[w].last_slot
     /\ inflight[v].status = Absent /\ inflight[w].status = Absent
     /\ inflight[v].response.code = 201)
    => /\ inflight[w].response.code # 201
       /\ inflight[w].response.errors \cap {"CapacityExceeded", "RegistrationClosed"} # {}

\* C3: every change of a row's participation_status follows the transition
\* table (each of the changes a bulk request makes to a row does), and a
\* request for a transition outside the table is refused with the
\* InvalidTransition error and changes no row.  For mark-attended that error
\* is its 400 for a row in the wrong status; a check that runs before the
\* transition check (permission, the activity and user checks of a
\* registration) may refuse the request first.
C3_ChangesFollowTable ==
  \A i \in DOMAIN participants :
    LET old == participants[i].participation_status
        new == participants'[i].participation_status
        times == Cardinality({j \in DOMAIN response'.updated : response'.updated[j] = i})
    IN old # new =>
         IF request'.op = "bulk" THEN times >= 1 /\ TablePath(old, new, times)
         ELSE new \in TransitionTable[old]

C3_DisallowedRejected ==
  /\ (/\ request'.op = "update"
      /\ request'.status # Absent
      /\ Found(participants, request'.id)
      /\ Disallowed(participants[request'.id].participation_status, request'.status))
     => /\ response'.code = 400
        /\ response'.errors = {"InvalidTransition"}
        /\ participants' = participants
  /\ (/\ request'.op = "mark"
      /\ Found(participants, request'.id)
      /\ Disallowed(participants[request'.id].participation_status, "attended"))
     => /\ response'.code \in {400, 403}
        /\ response'.code = 400 => response'.errors = {"NotRegistered"}
        /\ participants' = participants
  /\ (/\ request'.op = "register"
      /\ \E i \in ActiveRowsOfPair(participants, request'.activity, request'.user,
                                   {"cancelled", "no_show"}) :
           Disallowed(participants[i].participation_status, StatusOf(request'.status)))
     => /\ response'.code = 400
        /\ response'.errors = {"InvalidTransition"} \/ response'.errors \cap GateErrors # {}
        /\ participants' = participants
  /\ request'.op = "bulk" =>
       \A k \in DOMAIN request'.data :
         LET item == request'.data[k]
         IN (/\ item.participation_status # Absent
             /\ Found(participants, item.participant_id)
             /\ \A j \in 1..(k - 1) : request'.data[j].participant_id # item.participant_id
             /\ Disallowed(participants[item.participant_id].participation_status,
                           item.participation_status))
            => /\ response'.code = 207
               /\ \/ <<k - 1, "InvalidTransition">> \in response'.errors
                  \/ <<k - 1, "PermissionDenied">> \in response'.errors
               /\ participants' = participants

ItemPasses(P, item, actor) ==
  /\ item.participant_id # NoRecord
  /\ item.participation_status # Absent
  /\ Found(P, item.participant_id)
  /\ LET rec == P[item.participant_id]
         act == activity[rec.activity]
     IN /\ act.created_by = actor
        /\ item.participation_status \in TransitionTable[rec.participation_status]
        /\ item.participation_status = "attended"
             => act.start_datetime <= clock /\ clock <= act.end_datetime
        /\ item.participation_status = "cancelled" => clock < act.start_datetime

\* The last item of data that names row i, or 0
LastItemFor(data, i) ==
  LET S == {k \in DOMAIN data : data[k].participant_id = i}
  IN IF S = {} THEN 0 ELSE CHOOSE k \in S : \A j \in S : j <= k

\* C4: a bulk update is all-or-nothing.  An item that fails validation makes
\* the response 207, with that item listed under its index, and no row is
\* changed, the rows of the valid items included; the response is 200 only
\* when every item passes, and then every item is applied.
C4_BulkAllOrNothing ==
  [][request'.op = "bulk" /\ request'.data # <<>> =>
       LET data == request'.data
           failed == {e[1] : e \in response'.errors}
       IN /\ response'.code \in {200, 207}
          /\ \A k \in DOMAIN data :
               (/\ ~ItemPasses(participants, data[k], request'.user)
                /\ \A j \in 1..(k - 1) : data[j].participant_id # data[k].participant_id)
               => response'.code = 207 /\ (k - 1) \in failed
          /\ response'.code = 207 =>
               /\ participants' = participants
               /\ failed # {}
               /\ failed \subseteq 0..(Len(data) - 1)
               /\ Len(response'.updated) + Cardinality(failed) = Len(data)
          /\ response'.code = 200 =>
               /\ response'.errors = {}
               /\ response'.updated = [k \in DOMAIN data |-> data[k].participant_id]
               /\ Len(participants') = Len(participants)
               /\ \A i \in DOMAIN participants :
                    IF LastItemFor(data, i) = 0
                    THEN participants'[i] = participants[i]
                    ELSE participants'[i] =
                           [participants[i] EXCEPT !.participation_status =
                              data[LastItemFor(data, i)].participation_status]]_vars

\* C4 witness: a batch of two items was answered 207 although one of its
\* items was valid and had been written inside the transaction.
C4_Witness ==
  /\ request.op = "bulk"
  /\ Len(request.data) = 2
  /\ response.code = 207
  /\ response.updated # <<>>

\* C5 as stated: each (activity, user) pair has at most one row, active or
\* soft-deleted, whose participation_status is registered or attended.
C5_OneRecordPerPair ==
  \A a \in Activities, u \in Users :
    Cardinality(RowsOfPair(participants, a, u, {"registered", "attended"})) <= 1

\* C5 amended: each (activity, user) pair has at most one row with
\* is_active = true whose participation_status is registered or attended.
C5_OneActiveRecordPerPair ==
  \A a \in Activities, u \in Users :
    Cardinality(ActiveRowsOfPair(participants, a, u, {"registered", "attended"})) <= 1

\* C5 witness: a pair holds a soft-deleted row and an active row, both in a
\* status of {registered, attended}.
C5_Witness ==
  \E a \in Activities, u \in Users :
    /\ Cardinality(RowsOfPair(participants, a, u, {"registered", "attended"})) = 2
    /\ Cardinality(ActiveRowsOfPair(participants, a, u, {"registered", "attended"})) = 1

\* C6: a successful registration for a pair that has a cancelled or no_show
\* row returns the id of that row and inserts no row; every other row is left
\* as it was.
C6_ReRegistrationReusesRecord ==
  [][(/\ request'.op = "register"
      /\ response'.code = 201
      /\ ActiveRowsOfPair(participants, request'.activity, request'.user,
                          {"cancelled", "no_show"}) # {})
     => /\ Len(participants') = Len(participants)
        /\ response'.id \in ActiveRowsOfPair(participants, request'.activity,
                                             request'.user, {"cancelled", "no_show"})
        /\ participants'[response'.id].participation_status = StatusOf(request'.status)
        /\ \A i \in DOMAIN participants \ {response'.id} :
             participants'[i] = participants[i]]_vars

\* C6 witness: the first of two rows was registered again through the
\* registration operation, and the table still has two rows.
C6_Witness ==
  /\ request.op = "register"
  /\ response.code = 201
  /\ response.id = 1
  /\ Len(participants) = 2
  /\ participants[1].participation_status = "registered"

\* C7: attended is terminal.  No step changes the participation_status of a
\* row that is attended, and no step soft-deletes it (the delete handler
\* refuses attended rows).
C7_AttendedIsTerminal ==
  [][\A i \in DOMAIN participants :
       participants[i].participation_status = "attended"
       => /\ i \in DOMAIN participants'
          /\ participants'[i].participation_status = "attended"
          /\ participants'[i].is_active = participants[i].is_active]_vars

\* C7 witness: a single update asked to move an attended row to another
\* status and was refused.
C7_Witness ==
  /\ request.op = "update"
  /\ request.status \in {"registered", "cancelled", "no_show"}
  /\ Found(participants, request.id)
  /\ participants[request.id].participation_status = "attended"
  /\ response.code = 400

DuplicateKind(P, i) ==
  IF P[i].participation_status = "registered" THEN "AlreadyRegistered"
  ELSE "AlreadyAttended"

\* C9 as stated: a registration for a pair that has an active registered or
\* attended row always fails with the DuplicateRegistration error of that
\* status and changes no row.
C9_DuplicateAlwaysReported ==
  [][request'.op = "register" =>
       \A i \in ActiveRowsOfPair(participants, request'.activity, request'.user,
                                 {"registered", "attended"}) :
         /\ response'.code = 400
         /\ response'.errors = {DuplicateKind(participants, i)}
         /\ participants' = participants]_vars

\* C9 amended: such a registration is answered 400 and changes no row; its
\* error is the DuplicateRegistration error of the row's status whenever the
\* activity and user checks that run first all pass, and the error of those
\* checks otherwise.
C9_DuplicateRejected ==
  [][request'.op = "register" =>
       \A i \in ActiveRowsOfPair(participants, request'.activity, request'.user,
                                 {"registered", "attended"}) :
         /\ response'.code = 400
         /\ participants' = participants
         /\ IF response'.errors \cap GateErrors = {}
            THEN response'.errors = {DuplicateKind(participants, i)}
            ELSE response'.errors \subseteq GateErrors]_vars

\* C9 witness: a registration for a pair with a registered row was refused
\* as already registered.
C9_Witness ==
  /\ request.op = "register"
  /\ response.code = 400
  /\ response.errors = {"AlreadyRegistered"}
  /\ ActiveRowsOfPair(participants, request.activity, request.user, {"registered"}) # {}

\* Registration is open for activity a
RegistrationOpen(a) ==
  /\ a \in Activities
  /\ activity[a].is_active
  /\ clock < activity[a].start_datetime

\* C10: a registration, new or for a cancelled / no_show row, succeeds only
\* if the activity exists, is active and has not started; a registration
\* that does not succeed changes no row.
C10_RegistrationOnlyWhileOpen ==
  [][request'.op = "register" =>
       /\ response'.code = 201 => RegistrationOpen(request'.activity)
       /\ response'.code # 201 => participants' = participants
       /\ response'.code \in {201, 400, 500}]_vars

\* C10 witness: after the start of the activity a registration for a pair
\* with a cancelled row was refused.
C10_Witness ==
  /\ request.op = "register"
  /\ request.activity \in Activities
  /\ clock >= activity[request.activity].start_datetime
  /\ ActiveRowsOfPair(participants, request.activity, request.user, {"cancelled"}) # {}
  /\ response.code = 400

\* C11: every successful registration leaves the row it inserts or reuses
\* with participation_status = registered, whatever the body carries.
C11_RegistrationLeavesRegistered ==
  [][request'.op = "register" /\ response'.code = 201
       => /\ response'.id \in DOMAIN participants'
          /\ participants'[response'.id].participation_status = "registered"]_vars

\* Row i has status st after the step and did not have it before (it was in
\* another status, or it is inserted by the step).
Becomes(i, st) ==
  /\ i \in DOMAIN participants'
  /\ participants'[i].participation_status = st
  /\ i \in DOMAIN participants => participants[i].participation_status # st

\* C12: a row's status becomes attended only while the current time is within
\* [start_datetime, end_datetime] of its activity, whichever operation
\* produces the status.
C12_AttendedOnlyInWindow ==
  [][\A i \in DOMAIN participants' :
       Becomes(i, "attended")
       => LET act == activity[participants'[i].activity]
          IN act.start_datetime <= clock /\ clock <= act.end_datetime]_vars

\* C13: a row's status becomes cancelled only while the current time is
\* strictly before start_datetime of its activity, whichever operation
\* produces the status.
C13_CancelledOnlyBeforeStart ==
  [][\A i \in DOMAIN participants' :
       Becomes(i, "cancelled")
       => clock < activity[participants'[i].activity].start_datetime]_vars

\* C13 witness: once the activity had started, a single update asking to
\* cancel a registered row was refused.
C13_Witness ==
  /\ request.op = "update"
  /\ request.status = "cancelled"
  /\ Found(participants, request.id)
  /\ participants[request.id].participation_status = "registered"
  /\ clock >= activity[participants[request.id].activity].start_datetime
  /\ response.code = 400

\* The rows the step changes
ChangedRows ==
  {i \in DOMAIN participants :
     i \notin DOMAIN participants' \/ participants'[i] # participants[i]}

\* C14: a single update or a bulk update changes a row only when the acting
\* user is the creator of the row's activity; a request by another user
\* changes no row.
C14_OnlyOrganizerUpdates ==
  [][request'.op \in {"update", "bulk"}
       => \A i \in ChangedRows :
            activity[participants[i].activity].created_by = request'.user]_vars

\* The users the specification lets mark row rec attended
MayMark(actor, rec) == actor = rec.user \/ CustomUser[actor].role = "imam"

\* C15: mark-attended changes a row only when the acting user is the
\* participant of the row or has the role imam; for every other acting user
\* the answer is 403 and no row changes.
C15_MarkAttendedAuthorization ==
  [][request'.op = "mark" /\ Found(participants, request'.id)
       => /\ ChangedRows # {} => MayMark(request'.user, participants[request'.id])
          /\ ~MayMark(request'.user, participants[request'.id])
               => response'.code = 403 /\ participants' = participants]_vars

Eligible(u) ==
  /\ u \in Users
  /\ CustomUser[u].is_active
  /\ CustomUser[u].role \in {"participant", "imam"}

\* C17: cancellation frees capacity.  While an activity that has not started
\* is full, a registration by an eligible user without a row fails with
\* CapacityExceeded; a cancellation before the start takes one row out of
\* the registered count; and whenever the activity has a free slot again, the
\* registration of an eligible user who holds no registered or attended row
\* succeeds and leaves that user registered.
C17_CancellationFreesCapacity ==
  [][/\ (/\ request'.op = "register"
         /\ RegistrationOpen(request'.activity)
         /\ Eligible(request'.user)
         /\ StatusOf(request'.status) = "registered"
         /\ ActiveRowsOfPair(participants, request'.activity, request'.user,
                             {"registered", "attended"}) = {})
        => LET a == request'.activity
               full == Cardinality(RegisteredRows(participants, a))
                         >= activity[a].required_participants
           IN IF full
              THEN /\ get_available_spots(participants, activity, a) = 0
                   /\ response'.code = 400
                   /\ "CapacityExceeded" \in response'.errors
                   /\ participants' = participants
              ELSE /\ get_available_spots(participants, activity, a) > 0
                   /\ response'.code = 201
                   /\ participants'[response'.id].user = request'.user
                   /\ participants'[response'.id].participation_status = "registered"
                   /\ RegisteredRows(participants', a)
                        = RegisteredRows(participants, a) \cup {response'.id}
     /\ (/\ request'.op = "update"
         /\ request'.status = "cancelled"
         /\ response'.code = 200)
        => LET a == participants[request'.id].activity
           IN /\ clock < activity[a].start_datetime
              /\ RegisteredRows(participants', a)
                   = RegisteredRows(participants, a) \ {request'.id}]_vars

\* C17 witness: required_participants = 1, the first user's row is cancelled
\* and the second user has just been registered in the freed slot.
C17_Witness ==
  /\ request.op = "register"
  /\ response.code = 201
  /\ Len(participants) = 2
  /\ activity[request.activity].required_participants = 1
  /\ participants[1].participation_status = "cancelled"
  /\ participants[1].user # request.user
  /\ participants[2].user = request.user
  /\ participants[2].participation_status = "registered"

\* u has a participant record of activity a whose status is attended
HasAttended(P, u, a) ==
  \E i \in DOMAIN P :
    /\ P[i].user = u
    /\ P[i].activity = a
    /\ P[i].participation_status = "attended"

\* C18: a feedback creation by a user who has no attended participant record
\* of the target activity is rejected and stores nothing, even when the
\* body passes the serializer.
C18_FeedbackNeedsAttendance ==
  [][(/\ request'.op = "create_feedback"
      /\ ~HasAttended(participants, request'.user, request'.activity))
     => (response'.code # 201 /\ feedbacks' = feedbacks)]_vars

\* the feedback rows of author u for activity a
FeedbackOfPair(F, u, a) ==
  {i \in DOMAIN F : F[i] # NoFeedback /\ F[i].created_by = u /\ F[i].activity = a}

\* no two feedback rows of F share their author and their activity
UniqueFeedbackPairs(F) ==
  \A i, j \in DOMAIN F :
    (F[i] # NoFeedback /\ F[j] # NoFeedback /\ i # j)
      => ~(F[i].created_by = F[j].created_by /\ F[i].activity = F[j].activity)

\* C19: under feedback create, update and delete there is at most one
\* feedback per (author, activity) pair, and a create by an author who
\* already has feedback for that activity is rejected and stores nothing.
C19_OneFeedbackPerPair ==
  [][/\ UniqueFeedbackPairs(feedbacks')
     /\ (/\ request'.op = "create_feedback"
         /\ FeedbackOfPair(feedbacks, request'.user, request'.activity) # {})
        => (response'.code \notin {200, 201} /\ feedbacks' = feedbacks)]_vars

\* an author who has feedback for an activity asked for a second one and was
\* refused on that ground
C19_Witness ==
  /\ request.op = "create_feedback"
  /\ response.code = 400
  /\ response.errors = {"DuplicateFeedback"}
  /\ Cardinality(FeedbackOfPair(feedbacks, request.user, request.activity)) = 1

\* no two active activities of the table have overlapping windows
NoActiveOverlap(act) ==
  \A a, b \in DOMAIN act :
    (a # b /\ act[a].is_active /\ act[b].is_active)
      => ~(/\ act[a].start_datetime < act[b].end_datetime
           /\ act[a].end_datetime > act[b].start_datetime)

\* the value a field has once the request is applied to activity pk
Requested(act, pk, body, name, default) ==
  IF name \in DOMAIN body THEN body[name]
  ELSE IF pk \in DOMAIN act THEN act[pk][name]
  ELSE default

\* applying the request would leave an active activity whose window
\* overlaps that of another active activity
ProducesOverlap(act, req) ==
  LET pk == req.activity
      body == req.data[1]
      on == Requested(act, pk, body, "is_active", TRUE)
      start == Requested(act, pk, body, "start_datetime", 0)
      end == Requested(act, pk, body, "end_datetime", 0)
  IN /\ req.op = "create_activity" \/ pk \in DOMAIN act
     /\ on
     /\ \E b \in DOMAIN act \ {pk} :
          /\ act[b].is_active
          /\ start < act[b].end_datetime
          /\ end > act[b].start_datetime

\* C20: under activity create, update and soft delete no two active
\* activities have overlapping windows, and a create or update that would
\* produce such an overlap is rejected and changes nothing.
C20_NoOverlappingActivities ==
  [][/\ NoActiveOverlap(activity')
     /\ (/\ request'.op \in {"create_activity", "update_activity"}
         /\ ProducesOverlap(activity, request'))
        => (response'.code \notin {200, 201} /\ activity' = activity)]_vars

\* with two active activities in the directory, an update moving one of
\* them onto the other was refused because of the overlap
C20_Witness ==
  /\ request.op = "update_activity"
  /\ response.code = 400
  /\ response.errors = {"Overlap"}
  /\ ProducesOverlap(activity, request)
  /\ Cardinality({a \in DOMAIN activity : activity[a].is_active}) = 2

\* the active records of activity a in status st
ActiveInStatus(P, a, st) ==
  {i \in DOMAIN P : P[i].activity = a /\ P[i].is_active /\ P[i].participation_status = st}

\* rate, in hundredths of a percent, is attended / registered_total * 100
\* rounded to two decimals: no other value is nearer
IsRoundedRate(rate, attended, registered_total) ==
  /\ 2 * (rate * registered_total - attended * 10000) <= registered_total
  /\ 2 * (attended * 10000 - rate * registered_total) <= registered_total

\* C21 as stated: the rate returned is 0.0 if and only if registered_total
\* is 0, and otherwise round(attended / registered_total * 100, 2).
C21_RateZeroIffNoneRegistered ==
  (request.op = "stats" /\ response.code = 200) =>
    LET attended == Cardinality(ActiveInStatus(participants, request.activity, "attended"))
        registered_total == Cardinality(ActiveInStatus(participants, request.activity, "registered"))
        rate == response.updated[1].attendance_rate
    IN /\ (rate = 0) <=> (registered_total = 0)
       /\ registered_total # 0 => IsRoundedRate(rate, attended, registered_total)

\* C21: the rate returned is 0.0 when registered_total is 0, and otherwise
\* round(attended / registered_total * 100, 2), which is again 0.0 when
\* no record is attended.
C21_AttendanceRate ==
  (request.op = "stats" /\ response.code = 200) =>
    LET attended == Cardinality(ActiveInStatus(participants, request.activity, "attended"))
        registered_total == Cardinality(ActiveInStatus(participants, request.activity, "registered"))
        rate == response.updated[1].attendance_rate
    IN /\ registered_total = 0 => rate = 0
       /\ registered_total # 0 => IsRoundedRate(rate, attended, registered_total)

\* statistics of an activity with one attended and three registered records,
\* where the rate has to be rounded
C21_Witness ==
  /\ request.op = "stats"
  /\ response.code = 200
  /\ response.updated[1].total_attended = 1
  /\ response.updated[1].total_registered = 3
  /\ response.updated[1].attendance_rate = 3333

\* C22: when a registration succeeds by reusing the cancelled or no_show
\* record of the pair, that record's registration timestamp becomes the time
\* of the re-registration and its notes become those of the request, empty
\* when the request carries none.
C22_ReRegistrationResetsDetails ==
  [][(/\ request'.op = "register"
      /\ response'.code = 201
      /\ response'.id \in DOMAIN participants)
     => LET row == participants'[response'.id]
        IN /\ row.registration_date = clock
           /\ row.notes \in (IF request'.data = <<>>
                             THEN {"", NullNotes}
                             ELSE {request'.data[1]})]_vars

\* C23: no exception escapes an operation uncaught: an error raised while
\* an operation runs is caught at the operation's boundary and answered
\* with the generic 500 envelope {success, message, errors}.
C23_NoExceptionEscapes ==
  /\ response.body # "uncaught"
  /\ response.code = 500 => response.body = "envelope"

\* the validation reasons a registration or a status update is rejected for
ValidationReasons ==
  {"CapacityExceeded", "AlreadyRegistered", "AlreadyAttended",
   "InvalidTransition", "RegistrationClosed", "CannotAttend", "CannotCancel",
   "InactiveActivity", "InactiveUser"}

\* C24: a registration or single status update rejected for a validation
\* reason, also one raised only while the record is saved, is answered 400,
\* never 500, and leaves the ledger unchanged.
C24_ValidationRejectedWith400 ==
  [][(/\ request'.op \in {"register", "update"}
      /\ response'.errors \cap ValidationReasons # {})
     => (response'.code = 400 /\ participants' = participants)]_vars

\* C25: a single status update, mark-attended or soft-delete request naming
\* a participant record that does not exist or is soft-deleted is answered
\* 404 and changes no record.
C25_MissingRecordIs404 ==
  [][(/\ request'.op \in {"update", "mark", "delete"}
      /\ ~Found(participants, request'.id))
     => (response'.code = 404 /\ participants' = participants)]_vars

\* the number of characters of a name between its first and its last
\* character that is not a blank
TrimmedLength(name) ==
  LET inked == {i \in DOMAIN name : name[i] # " "}
  IN IF inked = {} THEN 0
     ELSE (CHOOSE i \in inked : \A j \in inked : j <= i)
          - (CHOOSE i \in inked : \A j \in inked : i <= j) + 1

\* the rules a request on activity pk (NoActivity for a create) violates,
\* by their rank in the validation order
RulesViolated(act, pk, body) ==
  (IF TrimmedLength(body.name) < 3 THEN {1} ELSE {})
  \cup (IF ~(body.start_datetime < body.end_datetime) THEN {2} ELSE {})
  \cup (IF ~(body.required_participants >= 1) THEN {3} ELSE {})
  \cup (IF \E b \in DOMAIN act \ {pk} :
             /\ act[b].is_active
             /\ act[b].start_datetime < body.end_datetime
             /\ act[b].end_datetime > body.start_datetime
        THEN {4} ELSE {})

RuleError ==
  <<"NameTooShort", "EndBeforeStart", "CapacityTooSmall", "Overlap">>

\* C26: activity create and update check name length, time ordering,
\* capacity and overlap in this order and report only the first failing
\* rule; the activity is not written.
C26_FirstFailingRuleReported ==
  [][(/\ \/ request'.op = "create_activity"
         \/ request'.op = "update_activity" /\ request'.activity \in DOMAIN activity
                                           /\ activity[request'.activity].is_active
      /\ RulesViolated(activity, request'.activity, request'.data[1]) # {})
     => LET failing == RulesViolated(activity, request'.activity, request'.data[1])
            first == CHOOSE r \in failing : \A q \in failing : r <= q
        IN /\ response'.errors = {RuleError[first]}
           /\ activity' = activity]_vars

\* C28: under any interleaving of two concurrent registration requests for
\* the same (activity, user) pair, once both requests have completed the
\* pair has at most one active record that is registered or attended.
C28_OneActiveRecordAfterRace ==
  (\A w \in Workers : inflight[w].pc \in {"idle", "done"})
    => \A a \in Activities, u \in ConcRegistrants :
         Cardinality(ActiveRowsOfPair(participants, a, u, {"registered", "attended"})) <= 1

\* C27: under any interleaving of two concurrent status changes of one
\* participant record, the successive committed statuses of the record
\* follow the transition table; a committed attended is never overwritten.
C27_CommittedStatusesFollowTable ==
  [][\A i \in DOMAIN participants :
       LET old == participants[i].participation_status
           new == participants'[i].participation_status
       IN /\ old # new => new \in TransitionTable[old]
          /\ old = "attended" => new = "attended"]_vars

\* C29: no row's status changes to registered at or after start_datetime of
\* its activity, through registration, single update or bulk update.
C29_RegisteredOnlyBeforeStart ==
  [][\A i \in DOMAIN participants' :
       Becomes(i, "registered")
       => clock < activity[participants'[i].activity].start_datetime]_vars

\* the request is a participant write on a record of activity a, or a
\* registration for a
TargetsActivity(req, a) ==
  \/ req.op = "register" /\ req.activity = a
  \/ /\ req.op \in {"update", "mark", "delete"}
     /\ Found(participants, req.id)
     /\ participants[req.id].activity = a
  \/ /\ req.op = "bulk"
     /\ \E k \in DOMAIN req.data :
          /\ Found(participants, req.data[k].participant_id)
          /\ participants[req.data[k].participant_id].activity = a

\* C30: once an activity is inactive it stays inactive, no step changes or
\* adds a participant row of it, and every registration, single update, bulk
\* update, mark-attended and participant soft-delete on it fails and leaves
\* the ledger unchanged.
C30_DeletedActivityIsFrozen ==
  [][\A a \in DOMAIN activity :
       ~activity[a].is_active
       => /\ a \in DOMAIN activity' /\ ~activity'[a].is_active
          /\ \A i \in DOMAIN participants' :
               participants'[i].activity = a
               => i \in DOMAIN participants /\ participants'[i] = participants[i]
          /\ TargetsActivity(request', a)
             => /\ response'.code \notin {200, 201, 204}
                /\ participants' = participants]_vars

\* a write on a record of a deactivated activity has been answered
C30_Witness ==
  \E a \in DOMAIN activity :
    /\ ~activity[a].is_active
    /\ request.op \in {"update", "mark", "delete", "bulk"}
    /\ TargetsActivity(request, a)
    /\ response.code \notin {0, 200, 201, 204}

====
